---- MODULE Spec2Model ----
\* A model of ktDNS (src/ktDNS.py): the DNS message codec of class Handler,
\* the zone table of class Zone, and the threaded request handling of Server.
\*
\* Python values are modelled as follows.
\*   bytes        a sequence of integers 0..255
\*   str          a sequence of code points (integers); '.' is code point 46
\*   list         a sequence
\*   dict         a function whose domain is the set of keys
\*   a call       a record [exc, val]: exc = "none" and val the returned value,
\*                or exc the name of the exception the call raises
EXTENDS Integers, Sequences, FiniteSets, TLC

VARIABLES
    flags_arg,      \* build_flags: the argument `flags`
    flags_ret,      \* build_flags: the outcome of the call
    question,       \* the question under decode: labels, QTYPE, QCLASS, cut
    decoded,        \* get_domain_and_QTYPE: the outcome of the call
    reencoded,      \* build_queries on the decoded domain: the outcome
    records_arg,    \* build_answers: the argument `records`
    answers_ret,    \* build_answers: the outcome of the call
    zones,          \* the module-level global `zones`
    query,          \* build_response: the query whose datagram is self.data
    response,       \* build_response: the outcome of the call
    pc,             \* per handler thread: position inside handle()
    request,        \* per handler thread: self.request[0], the datagram
    self_data,      \* per handler thread: self.data
    self_zones,     \* per handler thread: self.zones
    frame,          \* per handler thread: the locals of build_response
    outbox          \* per handler thread: what sendto() put on the wire

vars == <<flags_arg, flags_ret, question, decoded, reencoded, records_arg,
          answers_ret, zones, query, response, pc, request, self_data,
          self_zones, frame, outbox>>

-----------------------------------------------------------------------------
\* Bounds of the model.

MaxLabels == 2
MaxLabelLen == 2
MaxRecords == 2
MaxHandlers == 2

-----------------------------------------------------------------------------
\* Python primitives.

Pending == [exc |-> "pending", val |-> <<>>]

Return(v) == [exc |-> "none", val |-> v]

Raise(e) == [exc |-> e, val |-> <<>>]

Min(a, b) == IF a < b THEN a ELSE b

RECURSIVE Pow(_, _)
Pow(b, e) == IF e = 0 THEN 1 ELSE b * Pow(b, e - 1)

\* s[a:b] on a sequence, 0-based, clamped to the length as Python does.
Slice(s, a, b) == SubSeq(s, Min(a, Len(s)) + 1, Min(b, Len(s)))

\* x & (1 << bit)
BitAnd(x, bit) == ((x \div Pow(2, bit)) % 2) * Pow(2, bit)

\* The big-endian digits of n in w bytes.
BigEndian(n, w) == [i \in 1..w |-> (n \div Pow(256, w - i)) % 256]

\* n.to_bytes(w, byteorder='big'): OverflowError when n < 0 or n >= 256^w.
to_bytes(n, w) ==
    IF n < 0 \/ (n \div Pow(256, w - 1)) >= 256 THEN Raise("OverflowError")
    ELSE Return(BigEndian(n, w))

\* The value of a big-endian byte string.
RECURSIVE from_bytes(_)
from_bytes(b) ==
    IF b = <<>> THEN 0
    ELSE 256 * from_bytes(SubSeq(b, 1, Len(b) - 1)) + b[Len(b)]

Digits == <<48, 49, 50, 51, 52, 53, 54, 55, 56, 57>>

\* str(n) for n >= 0: the decimal digits of n, as code points.
RECURSIVE str(_)
str(n) ==
    IF n < 10 THEN <<Digits[n + 1]>>
    ELSE str(n \div 10) \o <<Digits[(n % 10) + 1]>>

RECURSIVE DigitsValue(_, _)
DigitsValue(s, base) ==
    IF s = <<>> THEN 0
    ELSE base * DigitsValue(SubSeq(s, 1, Len(s) - 1), base) + (s[Len(s)] - 48)

\* int(s, base) on a digit string: ValueError when s is empty or holds a
\* character that is not a digit of the base.
int(s, base) ==
    IF s = <<>> \/ \E i \in 1..Len(s) : s[i] < 48 \/ s[i] >= 48 + base
    THEN Raise("ValueError")
    ELSE Return(DigitsValue(s, base))

\* chr(byte) and ord(char): the code point of a byte is its value.
chr(byte) == byte

ord(char) == char

RECURSIVE join(_, _)
\* sep.join(parts)
join(sep, parts) ==
    IF parts = <<>> THEN <<>>
    ELSE IF Len(parts) = 1 THEN parts[1]
    ELSE parts[1] \o sep \o join(sep, Tail(parts))

RECURSIVE split(_, _)
\* s.split(sep) for a one-character separator
split(s, sep) ==
    IF \A i \in 1..Len(s) : s[i] # sep THEN <<s>>
    ELSE LET k == CHOOSE i \in 1..Len(s) :
                      s[i] = sep /\ \A j \in 1..(i - 1) : s[j] # sep
         IN <<SubSeq(s, 1, k - 1)>> \o split(SubSeq(s, k + 1, Len(s)), sep)

-----------------------------------------------------------------------------
\* Handler.build_flags

\* The loop of lines 36-38: OPCODE += str(ord(byte1) & (1 << bit)).
OPCODE_of(byte1) ==
    str(BitAnd(byte1, 1)) \o str(BitAnd(byte1, 2))
        \o str(BitAnd(byte1, 3)) \o str(BitAnd(byte1, 4))

build_flags(flags) ==
    LET byte1 == Slice(flags, 0, 1)
        QR == <<49>>
        AA == <<49>>
        TC == <<48>>
        RD == <<48>>
        RA == <<48>>
        Z == <<48, 48, 48>>
        RCODE == <<48, 48, 48, 48>>
    IN IF Len(byte1) # 1 THEN Raise("TypeError")
       ELSE LET hi == int(QR \o OPCODE_of(ord(byte1[1])) \o AA \o TC \o RD, 2)
                lo == int(RA \o Z \o RCODE, 2)
            IN IF hi.exc # "none" THEN hi
               ELSE IF to_bytes(hi.val, 1).exc # "none" THEN to_bytes(hi.val, 1)
               ELSE IF lo.exc # "none" THEN lo
               ELSE IF to_bytes(lo.val, 1).exc # "none" THEN to_bytes(lo.val, 1)
               ELSE Return(to_bytes(hi.val, 1).val \o to_bytes(lo.val, 1).val)

-----------------------------------------------------------------------------
\* Handler.get_domain_and_QTYPE

\* The locals at line 59-62, before the first byte is read.
decode_start ==
    [domain |-> <<>>, domain_string |-> <<>>, char_count |-> 0,
     QNAME_length |-> 0, is_appended |-> 0, expected_length |-> 0,
     broke |-> FALSE]

\* One pass through the body of the for loop, lines 65-80.
decode_byte(st, byte) ==
    IF st.is_appended = 1
    THEN LET string1 == IF byte # 0
                        THEN Append(st.domain_string, chr(byte))
                        ELSE st.domain_string
             count1 == st.char_count + 1
             full == (count1 = st.expected_length)
             domain1 == IF full THEN Append(st.domain, string1) ELSE st.domain
             string2 == IF full THEN <<>> ELSE string1
             count2 == IF full THEN 0 ELSE count1
             appended2 == IF full THEN 0 ELSE 1
         IN IF byte = 0
            THEN [st EXCEPT !.domain = Append(domain1, string2),
                            !.domain_string = string2,
                            !.char_count = count2,
                            !.is_appended = appended2,
                            !.broke = TRUE]
            ELSE [st EXCEPT !.domain = domain1,
                            !.domain_string = string2,
                            !.char_count = count2,
                            !.is_appended = appended2,
                            !.QNAME_length = st.QNAME_length + 1]
    ELSE [st EXCEPT !.is_appended = 1,
                    !.expected_length = byte,
                    !.QNAME_length = st.QNAME_length + 1]

RECURSIVE decode_loop(_, _, _)
\* for byte in data, from the i-th byte on, until break or the data ends.
decode_loop(st, data, i) ==
    IF st.broke \/ i > Len(data) THEN st
    ELSE decode_loop(decode_byte(st, data[i]), data, i + 1)

\* A decoder that leaves the root label out of the domain it returns.
get_domain_and_QTYPE_no_root(data) ==
    LET st == decode_loop(decode_start, data, 1)
    IN Return([domain |-> SelectSeq(st.domain, LAMBDA part : part # <<>>),
               QTYPE |-> Slice(data, st.QNAME_length, st.QNAME_length + 2),
               QNAME_length |-> st.QNAME_length])

get_domain_and_QTYPE(data) ==
    LET st == decode_loop(decode_start, data, 1)
    IN Return([domain |-> st.domain,
               QTYPE |-> Slice(data, st.QNAME_length, st.QNAME_length + 2),
               QNAME_length |-> st.QNAME_length])

-----------------------------------------------------------------------------
\* Zone

RECURSIVE load_zone_data(_)
\* json_zone[zone_data['$origin']] = zone_data, file after file: a later file
\* replaces an earlier one of the same origin.
load_zone_data(zone_files) ==
    IF zone_files = <<>> THEN <<>>
    ELSE LET zone_data == zone_files[Len(zone_files)]
             earlier == load_zone_data(SubSeq(zone_files, 1, Len(zone_files) - 1))
         IN [name \in (DOMAIN earlier) \cup {zone_data["$origin"]} |->
                IF name = zone_data["$origin"] THEN zone_data ELSE earlier[name]]

\* The empty dict the except clause of line 264 substitutes.
EmptyZone == [key \in {} |-> <<>>]

get_zone_by_domain(store, domain) ==
    LET zone_name == join(<<46>>, domain)
    IN IF zone_name \in DOMAIN store THEN store[zone_name] ELSE EmptyZone

-----------------------------------------------------------------------------
\* Handler.get_records

\* Lines 97-100: qtype is 'a' for QTYPE 00 01 and '' otherwise.
qtype_of(QTYPE) == IF QTYPE = BigEndian(1, 2) THEN "a" ELSE ""

get_records(data, store) ==
    LET got == get_domain_and_QTYPE(data)
        qclass == "IN"
        qtype == qtype_of(got.val.QTYPE)
        zone == get_zone_by_domain(store, got.val.domain)
    IN IF got.exc # "none" THEN got
       ELSE IF qtype \notin DOMAIN zone THEN Raise("KeyError")
       ELSE Return([records |-> zone[qtype], qtype |-> qtype,
                    domain |-> got.val.domain, qclass |-> qclass])

-----------------------------------------------------------------------------
\* Handler.build_answers

RECURSIVE address_bytes(_)
\* Lines 134-135: int(part).to_bytes(1, 'big') for each part, in order.
address_bytes(parts) ==
    IF parts = <<>> THEN Return(<<>>)
    ELSE LET number == int(parts[1], 10)
             byte == to_bytes(number.val, 1)
             rest == address_bytes(Tail(parts))
         IN IF number.exc # "none" THEN number
            ELSE IF byte.exc # "none" THEN byte
            ELSE IF rest.exc # "none" THEN rest
            ELSE Return(byte.val \o rest.val)

\* An answer block whose ttl is written with byteorder='little'.
answer_block_little_endian(record, qtype, qclass) ==
    LET ttl == to_bytes(record.ttl, 4)
        address == address_bytes(split(record.value, 46))
    IN IF ttl.exc # "none" THEN ttl
       ELSE IF address.exc # "none" THEN address
       ELSE Return(<<192, 12, 0, 1, 0, 1>>
                       \o [i \in 1..4 |-> ttl.val[5 - i]]
                       \o <<0, 4>> \o address.val)

\* The bytes one pass of the loop of lines 116-135 appends for `record`.
answer_block(record, qtype, qclass) ==
    LET pointer == <<192, 12>>
        type == IF qtype = "a" THEN to_bytes(1, 2).val ELSE <<>>
        class == IF qclass = "IN" THEN to_bytes(1, 2).val ELSE <<>>
        ttl == to_bytes(record.ttl, 4)
        address == address_bytes(split(record.value, 46))
    IN IF ttl.exc # "none" THEN ttl
       ELSE IF qtype # "a" THEN Return(pointer \o type \o class \o ttl.val)
       ELSE IF address.exc # "none" THEN address
       ELSE Return(pointer \o type \o class \o ttl.val
                       \o to_bytes(4, 2).val \o address.val)

RECURSIVE answer_blocks(_, _, _)
\* The blocks the loop appends, one per record, in the order of the records.
answer_blocks(records, qtype, qclass) ==
    IF records = <<>> THEN Return(<<>>)
    ELSE LET block == answer_block(records[1], qtype, qclass)
             rest == answer_blocks(Tail(records), qtype, qclass)
         IN IF block.exc # "none" THEN block
            ELSE IF rest.exc # "none" THEN rest
            ELSE Return(<<block.val>> \o rest.val)

RECURSIVE concat(_)
concat(blocks) ==
    IF blocks = <<>> THEN <<>> ELSE blocks[1] \o concat(Tail(blocks))

build_answers(records, qtype, qclass) ==
    LET blocks == answer_blocks(records, qtype, qclass)
    IN IF blocks.exc # "none" THEN blocks ELSE Return(concat(blocks.val))

-----------------------------------------------------------------------------
\* Handler.build_queries

\* Lines 152-153: ord(char).to_bytes(1, 'big') for each char of a part; the
\* first char that does not fit a byte raises.
chars_bytes(part) ==
    IF \E i \in 1..Len(part) : to_bytes(ord(part[i]), 1).exc # "none"
    THEN Raise("OverflowError")
    ELSE Return([i \in 1..Len(part) |-> to_bytes(ord(part[i]), 1).val[1]])

RECURSIVE name_bytes(_)
\* Lines 150-153: each part as its length byte followed by its characters.
name_bytes(domain) ==
    IF domain = <<>> THEN Return(<<>>)
    ELSE LET length == to_bytes(Len(domain[1]), 1)
             chars == chars_bytes(domain[1])
             rest == name_bytes(Tail(domain))
         IN IF length.exc # "none" THEN length
            ELSE IF chars.exc # "none" THEN chars
            ELSE IF rest.exc # "none" THEN rest
            ELSE Return(length.val \o chars.val \o rest.val)

build_queries(domain, qtype) ==
    LET name == name_bytes(domain)
        type == IF qtype = "a" THEN to_bytes(1, 2).val ELSE <<>>
        class == to_bytes(1, 2).val
    IN IF name.exc # "none" THEN name
       ELSE Return(name.val \o type \o class)

-----------------------------------------------------------------------------
\* Handler.build_header

\* A header whose ANCOUNT is written as QDCOUNT is: the constant 1.
build_header_one_answer(data, records) ==
    LET Flags == build_flags(Slice(data, 2, 4))
    IN IF Flags.exc # "none" THEN Flags
       ELSE Return(Slice(data, 0, 2) \o Flags.val \o <<0, 1>> \o <<0, 1>>
                       \o <<0, 0>> \o <<0, 0>>)

build_header(data, records) ==
    LET Transaction_ID == Slice(data, 0, 2)
        Flags == build_flags(Slice(data, 2, 4))
        QDCOUNT == to_bytes(1, 2)
        ANCOUNT == to_bytes(Len(records), 2)
        NSCOUNT == to_bytes(0, 2)
        ARCOUNT == to_bytes(0, 2)
    IN IF Flags.exc # "none" THEN Flags
       ELSE IF ANCOUNT.exc # "none" THEN ANCOUNT
       ELSE Return(Transaction_ID \o Flags.val \o QDCOUNT.val \o ANCOUNT.val
                       \o NSCOUNT.val \o ARCOUNT.val)

-----------------------------------------------------------------------------
\* Handler.build_response

\* The value carries the returned bytes and, beside them, the three sections
\* they are the concatenation of and the blocks build_answers appended.
build_response(data, store) ==
    LET got == get_records(Slice(data, 12, Len(data)), store)
        DNS_header == build_header(data, got.val.records)
        Queries == build_queries(got.val.domain, got.val.qtype)
        Answers == build_answers(got.val.records, got.val.qtype, got.val.qclass)
    IN IF got.exc # "none" THEN got
       ELSE IF DNS_header.exc # "none" THEN DNS_header
       ELSE IF Queries.exc # "none" THEN Queries
       ELSE IF Answers.exc # "none" THEN Answers
       ELSE Return([bytes |-> DNS_header.val \o Queries.val \o Answers.val,
                    DNS_header |-> DNS_header.val,
                    Queries |-> Queries.val,
                    Answers |-> Answers.val,
                    blocks |-> answer_blocks(got.val.records, got.val.qtype,
                                             got.val.qclass).val])

-----------------------------------------------------------------------------
\* The inputs: wire-format questions and datagrams as a client encodes them
\* (RFC 1035, 4.1), and the values the variables of a call not under study
\* rest at.

SeqsUpTo(S, lo, hi) == UNION {[1..k -> S] : k \in lo..hi}

RECURSIVE WireName(_)
\* Length-prefixed labels followed by the zero terminator.
WireName(labels) ==
    IF labels = <<>> THEN <<0>>
    ELSE <<Len(labels[1])>> \o labels[1] \o WireName(Tail(labels))

\* The 0-based offset of the length byte of the i-th label.
RECURSIVE LabelOffset(_, _)
LabelOffset(labels, i) ==
    IF i = 1 THEN 0
    ELSE LabelOffset(labels, i - 1) + 1 + Len(labels[i - 1])

\* The lengths at which a name is cut inside a label: the length byte of some
\* label is kept and fewer bytes than it announces follow.
CutsOf(labels) ==
    {k \in 1..Len(WireName(labels)) :
        \E i \in 1..Len(labels) :
            /\ LabelOffset(labels, i) < k
            /\ k <= LabelOffset(labels, i) + Len(labels[i])}

\* The bytes from offset 12 of a datagram on: the whole question, or the name
\* cut after q.cut bytes when q.cut > 0.
QuestionData(q) ==
    IF q.cut > 0 THEN SubSeq(WireName(q.labels), 1, q.cut)
    ELSE WireName(q.labels) \o BigEndian(q.QTYPE, 2) \o BigEndian(q.QCLASS, 2)

\* A datagram: transaction id, flags, QDCOUNT 1, three zero counts, question.
Datagram(q) ==
    q.id \o q.flags \o <<0, 1, 0, 0, 0, 0, 0, 0>> \o QuestionData(q)

NoQuestion == [labels |-> <<>>, QTYPE |-> 0, QCLASS |-> 0, cut |-> 0]

NoQuery == [id |-> <<>>, flags |-> <<>>, labels |-> <<>>, QTYPE |-> 0,
            QCLASS |-> 0, cut |-> 0]

FlagsIdle == flags_arg = <<>> /\ flags_ret = Pending

NameIdle == question = NoQuestion /\ decoded = Pending /\ reencoded = Pending

AnswersIdle == records_arg = <<>> /\ answers_ret = Pending

ResponseIdle == query = NoQuery /\ response = Pending

ServerIdle ==
    /\ pc = <<>>
    /\ request = <<>>
    /\ self_data = <<>>
    /\ self_zones = <<>>
    /\ frame = <<>>
    /\ outbox = <<>>

-----------------------------------------------------------------------------
\* Handler.build_flags called on every two-byte flags field.

SecondFlagsBytes == {0, 128, 255}

InitFlags ==
    /\ flags_arg \in {<<b1, b2>> : b1 \in 0..255, b2 \in SecondFlagsBytes}
    /\ flags_ret = Pending
    /\ NameIdle /\ AnswersIdle /\ ResponseIdle /\ ServerIdle
    /\ zones = <<>>

CallBuildFlags ==
    /\ flags_arg # <<>>
    /\ flags_ret = Pending
    /\ flags_ret' = build_flags(flags_arg)
    /\ UNCHANGED <<flags_arg, question, decoded, reencoded, records_arg,
                   answers_ret, zones, query, response, pc, request,
                   self_data, self_zones, frame, outbox>>

NextFlags == CallBuildFlags

SpecFlags == InitFlags /\ [][NextFlags]_vars

\* The 4-bit OPCODE field of the first flags byte (RFC 1035, 4.1.1).
OpcodeField(byte1) == (byte1 \div 8) % 16

\* C5: for every two-byte flags field, build_flags returns two bytes, the
\* first 0x80 | (opcode << 3) | 0x04 with opcode the OPCODE field of the
\* query's first flags byte, the second 0x00.
C5_ResponseFlags ==
    flags_ret # Pending =>
        /\ flags_ret.exc = "none"
        /\ flags_ret.val = <<128 + 8 * OpcodeField(flags_arg[1]) + 4, 0>>

-----------------------------------------------------------------------------
\* Handler.get_domain_and_QTYPE called on a question, and Handler.build_queries
\* called on the domain it decoded.

LabelBytes == {1, 97, 255}

LongLabel == [i \in 1..63 |-> 97]

Labels == SeqsUpTo(LabelBytes, 1, MaxLabelLen)

Names == SeqsUpTo(Labels, 1, MaxLabels) \cup {<<LongLabel>>, <<<<97>>, LongLabel>>}

QTYPEs == {0, 1, 255, 256, 65535}

QCLASSes == {1, 2, 256}

InitName ==
    /\ question \in
          [labels : Names, QTYPE : QTYPEs, QCLASS : QCLASSes, cut : {0}]
             \cup {[labels |-> n, QTYPE |-> 1, QCLASS |-> 1, cut |-> k] :
                      n \in Names, k \in 1..(MaxLabels * (MaxLabelLen + 1))}
    /\ question.cut > 0 => question.cut \in CutsOf(question.labels)
    /\ decoded = Pending
    /\ reencoded = Pending
    /\ FlagsIdle /\ AnswersIdle /\ ResponseIdle /\ ServerIdle
    /\ zones = <<>>

CallGetDomainAndQTYPE ==
    /\ question # NoQuestion
    /\ decoded = Pending
    /\ decoded' = get_domain_and_QTYPE(QuestionData(question))
    /\ UNCHANGED <<flags_arg, flags_ret, question, reencoded, records_arg,
                   answers_ret, zones, query, response, pc, request,
                   self_data, self_zones, frame, outbox>>

CallBuildQueries ==
    /\ decoded.exc = "none"
    /\ reencoded = Pending
    /\ reencoded' = build_queries(decoded.val.domain, qtype_of(decoded.val.QTYPE))
    /\ UNCHANGED <<flags_arg, flags_ret, question, decoded, records_arg,
                   answers_ret, zones, query, response, pc, request,
                   self_data, self_zones, frame, outbox>>

NextName == CallGetDomainAndQTYPE \/ CallBuildQueries

SpecName == InitName /\ [][NextName]_vars

\* C4: a question whose name is cut inside a label is not decoded into a
\* (domain, QTYPE) pair: get_domain_and_QTYPE fails instead of returning.
C4_TruncatedRejected ==
    (question.cut > 0 /\ decoded # Pending) => decoded.exc # "none"

\* C10: on a well-formed question, for every QTYPE and QCLASS, QNAME_length is
\* the length of the encoded name with its terminator and the QTYPE returned
\* is the two bytes that follow the terminator.
C10_QTYPEFollowsName ==
    (question # NoQuestion /\ question.cut = 0 /\ decoded # Pending) =>
        /\ decoded.exc = "none"
        /\ decoded.val.QNAME_length = Len(WireName(question.labels))
        /\ decoded.val.QTYPE = BigEndian(question.QTYPE, 2)

\* C7: for a well-formed name followed by QTYPE 1 and QCLASS 1, build_queries
\* on the decoded domain returns the bytes of the name as they were received
\* (length bytes, label bytes, terminator), followed by the four bytes of
\* type and class.
C7_NameRoundTrip ==
    (/\ question # NoQuestion
     /\ question.cut = 0 /\ question.QTYPE = 1 /\ question.QCLASS = 1
     /\ reencoded # Pending) =>
        /\ reencoded.exc = "none"
        /\ Len(reencoded.val) = Len(WireName(question.labels)) + 4
        /\ SubSeq(reencoded.val, 1, Len(WireName(question.labels)))
              = WireName(question.labels)

C7_Witness ==
    /\ Len(question.labels) = 2
    /\ question.cut = 0 /\ question.QTYPE = 1 /\ question.QCLASS = 1
    /\ reencoded.exc = "none"
    /\ reencoded.val = <<1, 97, 2, 255, 1, 0, 0, 1, 0, 1>>

-----------------------------------------------------------------------------
\* Handler.build_answers called on a list of address records.

TTLs == {0, 60, 300, 2147483647}

Quads == {<<93, 184, 216, 34>>, <<10, 0, 0, 1>>, <<0, 0, 0, 0>>,
          <<255, 255, 255, 255>>}

\* The dotted-quad string of four octets, as a zone file writes it.
DottedQuad(quad) == join(<<46>>, [i \in 1..4 |-> str(quad[i])])

AddressRecords == {[ttl |-> t, value |-> DottedQuad(q)] : t \in TTLs, q \in Quads}

\* The octets a dotted-quad string of the sample was written from.
QuadOf(value) == CHOOSE q \in Quads : DottedQuad(q) = value

InitAnswers ==
    /\ records_arg \in SeqsUpTo(AddressRecords, 0, MaxRecords)
    /\ answers_ret = Pending
    /\ FlagsIdle /\ NameIdle /\ ResponseIdle /\ ServerIdle
    /\ zones = <<>>

CallBuildAnswers ==
    /\ answers_ret = Pending
    /\ answers_ret' = build_answers(records_arg, "a", "IN")
    /\ UNCHANGED <<flags_arg, flags_ret, question, decoded, reencoded,
                   records_arg, zones, query, response, pc, request,
                   self_data, self_zones, frame, outbox>>

NextAnswers == CallBuildAnswers

SpecAnswers == InitAnswers /\ [][NextAnswers]_vars

\* The 16 bytes of the answer block of an address record.
ExpectedBlock(record) ==
    <<192, 12, 0, 1, 0, 1>> \o BigEndian(record.ttl, 4) \o <<0, 4>>
        \o QuadOf(record.value)

\* C8: build_answers with qtype 'a' and qclass 'IN' emits for each record, in
\* the order of the records, 16 bytes: C0 0C, TYPE 00 01, CLASS 00 01, the ttl
\* in 4 big-endian bytes, RDLENGTH 00 04 and the four octets of the address.
C8_AnswerBlocks ==
    answers_ret # Pending =>
        /\ answers_ret.exc = "none"
        /\ Len(answers_ret.val) = 16 * Len(records_arg)
        /\ \A i \in 1..Len(records_arg) :
              SubSeq(answers_ret.val, 16 * (i - 1) + 1, 16 * i)
                 = ExpectedBlock(records_arg[i])

C8_Witness ==
    /\ Len(records_arg) = 2
    /\ records_arg[1] = [ttl |-> 300, value |-> DottedQuad(<<93, 184, 216, 34>>)]
    /\ records_arg[2].ttl = 2147483647
    /\ answers_ret.exc = "none"
    /\ SubSeq(answers_ret.val, 1, 16)
          = <<192, 12, 0, 1, 0, 1, 0, 0, 1, 44, 0, 4, 93, 184, 216, 34>>

-----------------------------------------------------------------------------
\* Handler.build_response called on the datagram of a well-formed query, with
\* the global `zones` as Zone.load_zone_data left it.

QueryBytes == {97, 98}

QueryNames == SeqsUpTo(SeqsUpTo(QueryBytes, 1, MaxLabelLen), 1, MaxLabels)

QueryFlags == {<<1, 0>>, <<0, 0>>, <<8, 0>>}

QueryTypes == {1, 2, 256}

QueryClasses == {1, 2}

ResponseQueries == [id : {<<18, 52>>}, flags : QueryFlags, labels : QueryNames,
            QTYPE : QueryTypes, QCLASS : QueryClasses, cut : {0}]

\* Origins as zone files spell them: "a.b.", "a.b" and "a.".
Origins == {<<97, 46, 98, 46>>, <<97, 46, 98>>, <<97, 46>>}

ZoneRecords == {[ttl |-> 60, value |-> DottedQuad(<<10, 0, 0, 1>>)],
                [ttl |-> 300, value |-> DottedQuad(<<93, 184, 216, 34>>)]}

\* The dict json.load returns for a zone file.
ZoneData(origin, records) ==
    [key \in {"$origin", "a"} |-> IF key = "a" THEN records ELSE origin]

ZoneFiles ==
    {ZoneData(o, r) : o \in Origins, r \in SeqsUpTo(ZoneRecords, 0, MaxRecords)}

\* Files read after another one; the first has the origin of some first file.
LaterFiles ==
    {ZoneData(<<97, 46, 98, 46>>,
              <<[ttl |-> 0, value |-> DottedQuad(<<0, 0, 0, 0>>)]>>),
     ZoneData(<<98, 46>>, <<>>)}

ZoneFileLists ==
    {<<>>} \cup {<<z>> : z \in ZoneFiles}
           \cup {<<z, w>> : z \in ZoneFiles, w \in LaterFiles}

InitResponse ==
    /\ zones \in {load_zone_data(files) : files \in ZoneFileLists}
    /\ query \in ResponseQueries
    /\ response = Pending
    /\ FlagsIdle /\ NameIdle /\ AnswersIdle /\ ServerIdle

CallBuildResponse ==
    /\ query # NoQuery
    /\ response = Pending
    /\ response' = build_response(Datagram(query), zones)
    /\ UNCHANGED <<flags_arg, flags_ret, question, decoded, reencoded,
                   records_arg, answers_ret, zones, query, pc, request,
                   self_data, self_zones, frame, outbox>>

NextResponse == CallBuildResponse

SpecResponse == InitResponse /\ [][NextResponse]_vars

\* The name of a query as the spec spells it: its labels joined with '.'.
DottedName(labels) == join(<<46>>, labels)

\* The question section that echoes name, QTYPE 1 and QCLASS 1.
EchoedQuestion(labels) == WireName(labels) \o <<0, 1, 0, 1>>

ANCOUNT_of(bytes) == from_bytes(SubSeq(bytes, 7, 8))

\* C1: when the zone store holds a zone whose origin is the labels of the
\* query joined with '.', and the query has QTYPE 1 and QCLASS 1,
\* build_response returns a response with ANCOUNT the number of address
\* records of that zone, the question echoed, and the i-th answer block
\* carrying the ttl and the four octets of the i-th record.
C1_ZoneHit ==
    (/\ response # Pending
     /\ query.QTYPE = 1 /\ query.QCLASS = 1
     /\ DottedName(query.labels) \in DOMAIN zones) =>
        LET records == zones[DottedName(query.labels)]["a"]
        IN /\ response.exc = "none"
           /\ ANCOUNT_of(response.val.bytes) = Len(records)
           /\ response.val.Queries = EchoedQuestion(query.labels)
           /\ Len(response.val.blocks) = Len(records)
           /\ \A i \in 1..Len(records) :
                 /\ SubSeq(response.val.blocks[i], 7, 10)
                       = BigEndian(records[i].ttl, 4)
                 /\ SubSeq(response.val.blocks[i], 13, 16)
                       = QuadOf(records[i].value)

C3_Unsupported ==
    (/\ response # Pending
     /\ (query.QTYPE # 1 \/ query.QCLASS # 1)) =>
        /\ response.exc = "none"
        /\ ANCOUNT_of(response.val.bytes) = 0
        /\ response.val.Answers = <<>>

\* C6: in every response build_response returns, ANCOUNT (bytes 6-7 of the
\* header, big-endian) is the number of answer blocks build_answers appended,
\* the answer section is that many 16-byte blocks each opening with C0 0C,
\* QDCOUNT is 1 and NSCOUNT and ARCOUNT are 0.
C6_HeaderArithmetic ==
    response.exc = "none" =>
        LET bytes == response.val.bytes
            answer_offset == 12 + Len(response.val.Queries)
        IN /\ ANCOUNT_of(bytes) = Len(response.val.blocks)
           /\ Len(bytes) = answer_offset + 16 * ANCOUNT_of(bytes)
           /\ \A i \in 1..ANCOUNT_of(bytes) :
                 SubSeq(bytes, answer_offset + 16 * (i - 1) + 1,
                        answer_offset + 16 * (i - 1) + 2) = <<192, 12>>
           /\ SubSeq(bytes, 5, 6) = <<0, 1>>
           /\ SubSeq(bytes, 9, 12) = <<0, 0, 0, 0>>

C6_Witness ==
    /\ response.exc = "none"
    /\ Len(response.val.blocks) = 2
    /\ ANCOUNT_of(response.val.bytes) = 2
    /\ Len(response.val.Answers) = 32

-----------------------------------------------------------------------------
\* Server: one Handler per datagram, each in a thread of its own
\* (socketserver.ThreadingMixIn), running handle() statement by statement.

Handlers == 1..MaxHandlers

\* A query the store answers, one it misses, one whose flags carry an opcode,
\* and one cut inside its first label.
ServerQueries ==
    {[id |-> <<0, 1>>, flags |-> <<1, 0>>, labels |-> <<<<97>>, <<98>>>>,
      QTYPE |-> 1, QCLASS |-> 1, cut |-> 0],
     [id |-> <<0, 2>>, flags |-> <<1, 0>>, labels |-> <<<<98>>>>,
      QTYPE |-> 1, QCLASS |-> 1, cut |-> 0],
     [id |-> <<0, 3>>, flags |-> <<8, 0>>, labels |-> <<<<97>>, <<98>>>>,
      QTYPE |-> 1, QCLASS |-> 1, cut |-> 0],
     [id |-> <<0, 4>>, flags |-> <<1, 0>>, labels |-> <<<<97, 98>>>>,
      QTYPE |-> 1, QCLASS |-> 1, cut |-> 2]}

ServerDatagrams == {Datagram(q) : q \in ServerQueries}

ServerZoneFileLists ==
    {<<ZoneData(<<97, 46, 98, 46>>, records)>> : records \in SeqsUpTo(ZoneRecords, 2, 2)}
        \cup {<<ZoneData(<<98, 46>>, <<>>)>>}

NoFrame == [records |-> <<>>, qtype |-> "", domain |-> <<>>, qclass |-> "",
            DNS_header |-> <<>>, Queries |-> <<>>, Answers |-> <<>>]

Init ==
    /\ zones \in {load_zone_data(files) : files \in ServerZoneFileLists}
    /\ pc = [h \in Handlers |-> "idle"]
    /\ request = [h \in Handlers |-> <<>>]
    /\ self_data = [h \in Handlers |-> <<>>]
    /\ self_zones = [h \in Handlers |-> <<>>]
    /\ frame = [h \in Handlers |-> NoFrame]
    /\ outbox = [h \in Handlers |-> Pending]
    /\ FlagsIdle /\ NameIdle /\ AnswersIdle /\ ResponseIdle

\* The codec calls of the other specifications are not part of the server.
CodecUnchanged ==
    UNCHANGED <<flags_arg, flags_ret, question, decoded, reencoded,
                records_arg, answers_ret, query, response>>

\* An exception leaves handle(): nothing is sent, the thread ends.
Raised(h, call) ==
    /\ pc' = [pc EXCEPT ![h] = "raised"]
    /\ outbox' = [outbox EXCEPT ![h] = Raise(call.exc)]

\* The server hands datagram d to a new Handler, in a new thread.
Dispatch(h, d) ==
    /\ pc[h] = "idle"
    /\ request' = [request EXCEPT ![h] = d]
    /\ pc' = [pc EXCEPT ![h] = "handle"]
    /\ UNCHANGED <<zones, self_data, self_zones, frame, outbox>>
    /\ CodecUnchanged

\* The datagram kept in an attribute of the class, shared by every handler.
Receive_shared(h) ==
    /\ pc[h] = "handle"
    /\ self_data' = [k \in Handlers |-> request[h]]
    /\ pc' = [pc EXCEPT ![h] = "build_response"]
    /\ UNCHANGED <<zones, request, self_zones, frame, outbox>>
    /\ CodecUnchanged

\* Line 223: self.data = self.request[0]
Receive(h) ==
    /\ pc[h] = "handle"
    /\ self_data' = [self_data EXCEPT ![h] = request[h]]
    /\ pc' = [pc EXCEPT ![h] = "build_response"]
    /\ UNCHANGED <<zones, request, self_zones, frame, outbox>>
    /\ CodecUnchanged

\* Lines 197-198: global zones; self.zones = zones
BindZones(h) ==
    /\ pc[h] = "build_response"
    /\ self_zones' = [self_zones EXCEPT ![h] = zones]
    /\ pc' = [pc EXCEPT ![h] = "get_records"]
    /\ UNCHANGED <<zones, request, self_data, frame, outbox>>
    /\ CodecUnchanged

\* Line 199
GetRecords(h) ==
    /\ pc[h] = "get_records"
    /\ LET got == get_records(Slice(self_data[h], 12, Len(self_data[h])),
                              self_zones[h])
       IN IF got.exc # "none"
          THEN Raised(h, got) /\ UNCHANGED frame
          ELSE /\ frame' = [frame EXCEPT ![h].records = got.val.records,
                                         ![h].qtype = got.val.qtype,
                                         ![h].domain = got.val.domain,
                                         ![h].qclass = got.val.qclass]
               /\ pc' = [pc EXCEPT ![h] = "build_header"]
               /\ UNCHANGED outbox
    /\ UNCHANGED <<zones, request, self_data, self_zones>>
    /\ CodecUnchanged

\* Line 204
BuildHeader(h) ==
    /\ pc[h] = "build_header"
    /\ LET DNS_header == build_header(self_data[h], frame[h].records)
       IN IF DNS_header.exc # "none"
          THEN Raised(h, DNS_header) /\ UNCHANGED frame
          ELSE /\ frame' = [frame EXCEPT ![h].DNS_header = DNS_header.val]
               /\ pc' = [pc EXCEPT ![h] = "build_queries"]
               /\ UNCHANGED outbox
    /\ UNCHANGED <<zones, request, self_data, self_zones>>
    /\ CodecUnchanged

\* Line 209
BuildQueries(h) ==
    /\ pc[h] = "build_queries"
    /\ LET built == build_queries(frame[h].domain, frame[h].qtype)
       IN IF built.exc # "none"
          THEN Raised(h, built) /\ UNCHANGED frame
          ELSE /\ frame' = [frame EXCEPT ![h].Queries = built.val]
               /\ pc' = [pc EXCEPT ![h] = "build_answers"]
               /\ UNCHANGED outbox
    /\ UNCHANGED <<zones, request, self_data, self_zones>>
    /\ CodecUnchanged

\* Line 214
BuildAnswers(h) ==
    /\ pc[h] = "build_answers"
    /\ LET Answers == build_answers(frame[h].records, frame[h].qtype,
                                    frame[h].qclass)
       IN IF Answers.exc # "none"
          THEN Raised(h, Answers) /\ UNCHANGED frame
          ELSE /\ frame' = [frame EXCEPT ![h].Answers = Answers.val]
               /\ pc' = [pc EXCEPT ![h] = "sendto"]
               /\ UNCHANGED outbox
    /\ UNCHANGED <<zones, request, self_data, self_zones>>
    /\ CodecUnchanged

\* Lines 216 and 225-227: the concatenation is returned and sent.
Send(h) ==
    /\ pc[h] = "sendto"
    /\ outbox' = [outbox EXCEPT ![h] =
                     Return(frame[h].DNS_header \o frame[h].Queries
                                \o frame[h].Answers)]
    /\ pc' = [pc EXCEPT ![h] = "done"]
    /\ UNCHANGED <<zones, request, self_data, self_zones, frame>>
    /\ CodecUnchanged

Next ==
    \/ \E h \in Handlers, d \in ServerDatagrams : Dispatch(h, d)
    \/ \E h \in Handlers : Receive(h)
    \/ \E h \in Handlers : BindZones(h)
    \/ \E h \in Handlers : GetRecords(h)
    \/ \E h \in Handlers : BuildHeader(h)
    \/ \E h \in Handlers : BuildQueries(h)
    \/ \E h \in Handlers : BuildAnswers(h)
    \/ \E h \in Handlers : Send(h)

Spec == Init /\ [][Next]_vars

\* What a request ends in when it is handled alone: the bytes sent, or the
\* exception that ends handle().
HandledAlone(datagram, store) ==
    LET alone == build_response(datagram, store)
    IN IF alone.exc = "none" THEN Return(alone.val.bytes) ELSE Raise(alone.exc)

Finished(h) == pc[h] \in {"done", "raised"}

\* C9: in every interleaving of the handlers, no step modifies the zone table,
\* and what each handler sends, or the failure it ends in, is what its own
\* datagram and the zone table give when the request is handled alone.
C9_Independent ==
    /\ [](\A h \in Handlers :
             Finished(h) => outbox[h] = HandledAlone(request[h], zones))
    /\ [][zones' = zones]_vars

C9_Witness ==
    /\ \A h \in Handlers : Finished(h)
    /\ request[1] # request[2]
    /\ pc[1] = "done" /\ pc[2] = "raised"
    /\ Len(outbox[1].val) = 12 + 9 + 32

====
